---- MODULE Spec2Model ----
(***************************************************************************)
(* Model of the Parrot Jumping Sumo MCP server: the process-wide `robot`   *)
(* session held by server.py and the SumoWrapper of sumopy_wrapper.py.     *)
(*                                                                         *)
(* The python-sumo library (SumoController) is an external collaborator:   *)
(* every call into it is logged in `ops`, and what it answers (whether the *)
(* constructor succeeds, what the `connected` probe reports, whether a     *)
(* blocking move raises, ...) is an input of the tool call.                *)
(*                                                                         *)
(* Durations are in milliseconds: 0.025 s is 25, 0.1 s is 100, 1.0 s is    *)
(* 1000.                                                                   *)
(***************************************************************************)
EXTENDS Integers, Sequences, FiniteSets, TLC

\* Bounds of the model.
MaxCtl == 2      \* SumoController objects constructed in one run
MaxTasks == 2    \* tool calls the host has outstanding at once
MaxLongQueue == 2  \* frames held in one queue where their order is observed
MaxQueue == 1    \* frames held in one controller's _commands list

\* ------------------------------------------------------------------------
\* Values
\* ------------------------------------------------------------------------

DefaultIp == "192.168.2.1"
OtherIp == "10.0.0.7"

\* What the library can answer.
ProbeOutcomes == {"live", "dead", "raises"}        \* controller.connected
CallOutcomes == {"ok", "raises"}                   \* move, store_pic, file write
CtorOutcomes == {"ok", "timeout", "error"}         \* SumoController(...)
PicOutcomes == {"frame", "none", "raises"}         \* get_pic(retries=5)

\* self.controller = None
NoController == [id |-> 0, commands |-> <<>>]

\* robot = None
NoRobot == [none |-> TRUE, sumo_ip |-> "", controller |-> NoController]

\* One call into the library (or the file system), with what it answered.
Op(op, c, args, out) == [op |-> op, ctl |-> c, args |-> args, out |-> out]

\* dict.get(key, default)
Get(arguments, key, default) ==
    IF key \in DOMAIN arguments THEN arguments[key] ELSE default

Abs(n) == IF n < 0 THEN -n ELSE n

\* ------------------------------------------------------------------------
\* Command frames
\* ------------------------------------------------------------------------

\* struct.pack('<I', v): four bytes, least significant first.
pack_u32(v) ==
    << v % 256, (v \div 256) % 256, (v \div 65536) % 256, (v \div 16777216) % 256 >>

\* SumoController.fab_cmd(ack, channel, project, class, cmd, payload): the
\* frame is determined by its six arguments.
fab_cmd(ack, channel, project, class, cmd, payload) ==
    [ack |-> ack, channel |-> channel, project |-> project,
     class |-> class, cmd |-> cmd, payload |-> payload]

\* ------------------------------------------------------------------------
\* SumoWrapper
\* ------------------------------------------------------------------------

\* What a wrapper method leaves behind: the wrapper, the library calls it
\* made, the message of the exception it raised ("" when it returned) and
\* its return value.
Returned(w, ops, ret) == [w |-> w, ops |-> ops, exc |-> "", ret |-> ret]
Raised(w, ops, msg) == [w |-> w, ops |-> ops, exc |-> msg, ret |-> "none"]

LibraryError == "library error"

\* The probe is read only when a controller is held.
ProbeOps(w, probe) ==
    IF w.controller.id = 0 THEN <<>>
    ELSE << Op("connected", w.controller.id, <<>>, probe) >>

\* is_connected as `return self.controller is not None`
is_connected_held(w, probe) == w.controller.id # 0

is_connected(w, probe) ==
    IF w.controller.id = 0 THEN FALSE
    ELSE IF probe = "raises" THEN FALSE
    ELSE probe = "live"

\* _connect without its except clauses: a failed constructor propagates
connect_uncaught(w, timeout, ctor, newId) ==
    IF ctor = "ok"
    THEN Returned([w EXCEPT !.controller = [id |-> newId, commands |-> <<>>]],
                  << Op("SumoController", newId, <<w.sumo_ip, timeout>>, ctor) >>,
                  "none")
    ELSE Raised(w, << Op("SumoController", 0, <<w.sumo_ip, timeout>>, ctor) >>,
                LibraryError)

\* _connect: the controller is kept only when the constructor returns.
connect(w, timeout, ctor, newId) ==
    IF ctor = "ok"
    THEN Returned([w EXCEPT !.controller = [id |-> newId, commands |-> <<>>]],
                  << Op("SumoController", newId, <<w.sumo_ip, timeout>>, ctor) >>,
                  "none")
    ELSE Returned([w EXCEPT !.controller = NoController],
                  << Op("SumoController", 0, <<w.sumo_ip, timeout>>, ctor) >>,
                  "none")

DefaultTimeout == 5

\* SumoWrapper(sumo_ip): __init__
SumoWrapper(sumo_ip, ctor, newId) ==
    connect([none |-> FALSE, sumo_ip |-> sumo_ip, controller |-> NoController],
            DefaultTimeout, ctor, newId)

MinDuration == 25

\* move with exclusive range checks: the edges of the ranges are rejected
move_exclusive(w, speed, turn, duration, probe, mv) ==
    IF ~is_connected(w, probe)
    THEN Raised(w, ProbeOps(w, probe), "Robot not connected")
    ELSE IF ~(-100 < speed /\ speed < 100)
    THEN Raised(w, ProbeOps(w, probe), "Speed must be between -100 and 100")
    ELSE IF ~(-100 < turn /\ turn < 100)
    THEN Raised(w, ProbeOps(w, probe), "Turn must be between -100 and 100")
    ELSE IF duration <= MinDuration
    THEN Raised(w, ProbeOps(w, probe), "Duration must be at least 0.025 seconds")
    ELSE LET sent == ProbeOps(w, probe)
                     \o << Op("move", w.controller.id, <<speed, turn, duration>>, mv) >>
         IN  IF mv = "raises" THEN Raised(w, sent, LibraryError)
             ELSE Returned(w, sent, "none")

Clamp(lo, v, hi) == IF v < lo THEN lo ELSE IF v > hi THEN hi ELSE v

\* move that clamps its arguments into their ranges instead of rejecting them
move_clamped(w, speed, turn, duration, probe, mv) ==
    IF ~is_connected(w, probe)
    THEN Raised(w, ProbeOps(w, probe), "Robot not connected")
    ELSE LET sent == ProbeOps(w, probe)
                     \o << Op("move", w.controller.id,
                               <<Clamp(-100, speed, 100), Clamp(-100, turn, 100),
                                 Clamp(MinDuration, duration, duration)>>, mv) >>
         IN  IF mv = "raises" THEN Raised(w, sent, LibraryError)
             ELSE Returned(w, sent, "none")

\* move checking its arguments before the connection
move_validates_first(w, speed, turn, duration, probe, mv) ==
    IF ~(-100 <= speed /\ speed <= 100)
    THEN Raised(w, <<>>, "Speed must be between -100 and 100")
    ELSE IF ~(-100 <= turn /\ turn <= 100)
    THEN Raised(w, <<>>, "Turn must be between -100 and 100")
    ELSE IF duration < MinDuration
    THEN Raised(w, <<>>, "Duration must be at least 0.025 seconds")
    ELSE IF ~is_connected(w, probe)
    THEN Raised(w, ProbeOps(w, probe), "Robot not connected")
    ELSE LET sent == ProbeOps(w, probe)
                     \o << Op("move", w.controller.id, <<speed, turn, duration>>, mv) >>
         IN  IF mv = "raises" THEN Raised(w, sent, LibraryError)
             ELSE Returned(w, sent, "none")

move(w, speed, turn, duration, probe, mv) ==
    IF ~is_connected(w, probe)
    THEN Raised(w, ProbeOps(w, probe), "Robot not connected")
    ELSE IF ~(-100 <= speed /\ speed <= 100)
    THEN Raised(w, ProbeOps(w, probe), "Speed must be between -100 and 100")
    ELSE IF ~(-100 <= turn /\ turn <= 100)
    THEN Raised(w, ProbeOps(w, probe), "Turn must be between -100 and 100")
    ELSE IF duration < MinDuration
    THEN Raised(w, ProbeOps(w, probe), "Duration must be at least 0.025 seconds")
    ELSE LET sent == ProbeOps(w, probe)
                     \o << Op("move", w.controller.id, <<speed, turn, duration>>, mv) >>
         IN  IF mv = "raises" THEN Raised(w, sent, LibraryError)
             ELSE Returned(w, sent, "none")

get_camera_frame(w, probe, pic) ==
    IF ~is_connected(w, probe)
    THEN Raised(w, ProbeOps(w, probe), "Robot not connected")
    ELSE LET asked == ProbeOps(w, probe)
                      \o << Op("get_pic", w.controller.id, <<5>>, pic) >>
         IN  IF pic = "frame" THEN Returned(w, asked, "jpeg")
             ELSE Returned(w, asked, "none")

capture_photo(w, probe, st) ==
    IF ~is_connected(w, probe)
    THEN Raised(w, ProbeOps(w, probe), "Robot not connected")
    ELSE LET asked == ProbeOps(w, probe)
                      \o << Op("store_pic", w.controller.id, <<>>, st) >>
         IN  IF st = "raises" THEN Raised(w, asked, LibraryError)
             ELSE Returned(w, asked, "none")

\* self.controller._commands.append(cmd)
Enqueue(w, probe, cmd) ==
    Returned([w EXCEPT !.controller.commands = Append(@, cmd)],
             ProbeOps(w, probe) \o << Op("append", w.controller.id, <<cmd>>, "ok") >>,
             "none")

\* jump with the two enum values exchanged
jump_swapped(w, jump_type, probe) ==
    IF ~is_connected(w, probe)
    THEN Raised(w, ProbeOps(w, probe), "Robot not connected")
    ELSE IF jump_type \notin {"long", "high"}
    THEN Raised(w, ProbeOps(w, probe), "Jump type must be 'long' or 'high'")
    ELSE LET jump_type_value == IF jump_type = "long" THEN 1 ELSE 0
         IN  Enqueue(w, probe, fab_cmd(4, 11, 3, 2, 3, pack_u32(jump_type_value)))

jump(w, jump_type, probe) ==
    IF ~is_connected(w, probe)
    THEN Raised(w, ProbeOps(w, probe), "Robot not connected")
    ELSE IF jump_type \notin {"long", "high"}
    THEN Raised(w, ProbeOps(w, probe), "Jump type must be 'long' or 'high'")
    ELSE LET jump_type_value == IF jump_type = "long" THEN 0 ELSE 1
         IN  Enqueue(w, probe, fab_cmd(4, 11, 3, 2, 3, pack_u32(jump_type_value)))

\* load_jump without its is_connected check
load_jump_unchecked(w, probe) ==
    Enqueue(w, probe, fab_cmd(4, 11, 3, 2, 2, <<>>))

load_jump(w, probe) ==
    IF ~is_connected(w, probe)
    THEN Raised(w, ProbeOps(w, probe), "Robot not connected")
    ELSE Enqueue(w, probe, fab_cmd(4, 11, 3, 2, 2, <<>>))

\* cancel_jump sending the command offset of load_jump
cancel_jump_as_load(w, probe) ==
    IF ~is_connected(w, probe)
    THEN Raised(w, ProbeOps(w, probe), "Robot not connected")
    ELSE Enqueue(w, probe, fab_cmd(4, 11, 3, 2, 2, <<>>))

cancel_jump(w, probe) ==
    IF ~is_connected(w, probe)
    THEN Raised(w, ProbeOps(w, probe), "Robot not connected")
    ELSE Enqueue(w, probe, fab_cmd(4, 11, 3, 2, 1, <<>>))

stop_jump(w, probe) ==
    IF ~is_connected(w, probe)
    THEN Raised(w, ProbeOps(w, probe), "Robot not connected")
    ELSE Enqueue(w, probe, fab_cmd(4, 11, 3, 2, 0, <<>>))

posture_types == [standing |-> 0, jumper |-> 1, kicker |-> 2]

\* change_posture built like the animation commands: command channel,
\* class Animations
change_posture_as_animation(w, posture_type, probe) ==
    IF ~is_connected(w, probe)
    THEN Raised(w, ProbeOps(w, probe), "Robot not connected")
    ELSE IF posture_type \notin DOMAIN posture_types
    THEN Raised(w, ProbeOps(w, probe), "Posture type must be one of: ['standing', 'jumper', 'kicker']")
    ELSE LET posture_value == posture_types[posture_type]
         IN  Enqueue(w, probe, fab_cmd(4, 11, 3, 2, 1, pack_u32(posture_value)))

change_posture(w, posture_type, probe) ==
    IF ~is_connected(w, probe)
    THEN Raised(w, ProbeOps(w, probe), "Robot not connected")
    ELSE IF posture_type \notin DOMAIN posture_types
    THEN Raised(w, ProbeOps(w, probe), "Posture type must be one of: ['standing', 'jumper', 'kicker']")
    ELSE LET posture_value == posture_types[posture_type]
         IN  Enqueue(w, probe, fab_cmd(4, 10, 3, 0, 1, pack_u32(posture_value)))

\* the animation table with its last two values exchanged
animations_swapped ==
    [stop |-> 0, spin |-> 1, tap |-> 2, slowshake |-> 3, metronome |-> 4,
     ondulation |-> 5, spinjump |-> 6, spintoposture |-> 7, spiral |-> 9,
     slalom |-> 8]

animations ==
    [stop |-> 0, spin |-> 1, tap |-> 2, slowshake |-> 3, metronome |-> 4,
     ondulation |-> 5, spinjump |-> 6, spintoposture |-> 7, spiral |-> 8,
     slalom |-> 9]

\* play_animation sending the command offset of jump
play_animation_as_jump(w, animation_name, probe) ==
    IF ~is_connected(w, probe)
    THEN Raised(w, ProbeOps(w, probe), "Robot not connected")
    ELSE IF animation_name \notin DOMAIN animations
    THEN Raised(w, ProbeOps(w, probe), "Animation must be one of: ['stop', 'spin', 'tap', 'slowshake', 'metronome', 'ondulation', 'spinjump', 'spintoposture', 'spiral', 'slalom']")
    ELSE LET animation_value == animations[animation_name]
         IN  Enqueue(w, probe, fab_cmd(4, 11, 3, 2, 3, pack_u32(animation_value)))

play_animation(w, animation_name, probe) ==
    IF ~is_connected(w, probe)
    THEN Raised(w, ProbeOps(w, probe), "Robot not connected")
    ELSE IF animation_name \notin DOMAIN animations
    THEN Raised(w, ProbeOps(w, probe), "Animation must be one of: ['stop', 'spin', 'tap', 'slowshake', 'metronome', 'ondulation', 'spinjump', 'spintoposture', 'spiral', 'slalom']")
    ELSE LET animation_value == animations[animation_name]
         IN  Enqueue(w, probe, fab_cmd(4, 11, 3, 2, 4, pack_u32(animation_value)))

StopDuration == 100

\* disconnect without the try around the stop command: a failed stop
\* propagates and the controller stays
disconnect_stop_raises(w, mv) ==
    IF w.controller.id # 0
    THEN IF mv = "raises"
         THEN Raised(w, << Op("move", w.controller.id, <<0, 0, StopDuration>>, mv) >>,
                     LibraryError)
         ELSE Returned([w EXCEPT !.controller = NoController],
                       << Op("move", w.controller.id, <<0, 0, StopDuration>>, mv),
                          Op("release", w.controller.id, <<>>, "ok") >>,
                       "none")
    ELSE Returned(w, <<>>, "none")

\* disconnect without `self.controller = None`: the wrapper keeps the
\* controller it has released
disconnect_keeps_controller(w, mv) ==
    IF w.controller.id # 0
    THEN Returned(w,
                  << Op("move", w.controller.id, <<0, 0, StopDuration>>, mv),
                     Op("release", w.controller.id, <<>>, "ok") >>,
                  "none")
    ELSE Returned(w, <<>>, "none")

\* disconnect releasing the controller before it sends the stop command
disconnect_release_first(w, mv) ==
    IF w.controller.id # 0
    THEN Returned([w EXCEPT !.controller = NoController],
                  << Op("release", w.controller.id, <<>>, "ok"),
                     Op("move", w.controller.id, <<0, 0, StopDuration>>, mv) >>,
                  "none")
    ELSE Returned(w, <<>>, "none")

\* The stop command is attempted, its failure ignored, and the controller
\* is released either way.
disconnect(w, mv) ==
    IF w.controller.id # 0
    THEN Returned([w EXCEPT !.controller = NoController],
                  << Op("move", w.controller.id, <<0, 0, StopDuration>>, mv),
                     Op("release", w.controller.id, <<>>, "ok") >>,
                  "none")
    ELSE Returned(w, <<>>, "none")

\* __del__, run when the last reference to a wrapper goes away.
del(w, mv) == disconnect(w, mv)

\* ------------------------------------------------------------------------
\* server.py: call_tool
\* ------------------------------------------------------------------------

\* A response is a list of contents; `kind` names the message, `detail`
\* carries the values formatted into it, `image` tells whether an
\* ImageContent follows the text.
Response(kind, detail) == [kind |-> kind, detail |-> detail, image |-> FALSE]
ImageResponse(kind, detail) == [kind |-> kind, detail |-> detail, image |-> TRUE]

\* call_tool without its `except Exception`: the exception leaves the handler
ErrorResponse_propagated(name, msg) ==
    [kind |-> "exception", detail |-> <<msg>>, image |-> FALSE]

\* except Exception as e: "Error executing {name}: {str(e)}"
ErrorResponse(name, msg) == Response("error", <<name, msg>>)

\* What a tool call leaves behind.
Out(r, n, ops, response) == [robot |-> r, nextCtl |-> n, ops |-> ops, response |-> response]

\* What the library answers during one tool call: `gate` and `inner` are the
\* first and second reading of controller.connected, `lib` the blocking
\* library call (move, store_pic), `ctor` the constructor, `pic` get_pic and
\* `fs` the write of the frame file.
Env(gate, inner, lib, ctor, pic, fs) ==
    [gate |-> gate, inner |-> inner, lib |-> lib, ctor |-> ctor, pic |-> pic, fs |-> fs]

\* connect_robot without `if robot is not None: robot.disconnect()`: the
\* previous wrapper is torn down only when its last reference is dropped
connect_robot_keeps_previous(robot, nextCtl, arguments, e) ==
    LET sumo_ip == Get(arguments, "sumo_ip", DefaultIp)
        made == SumoWrapper(sumo_ip, e.ctor, nextCtl + 1)
        dropped == IF ~robot.none THEN del(robot, e.lib)
                   ELSE Returned(robot, <<>>, "none")
        ops == made.ops \o dropped.ops \o ProbeOps(made.w, e.gate)
        n == IF made.w.controller.id # 0 THEN nextCtl + 1 ELSE nextCtl
    IN  IF is_connected(made.w, e.gate)
        THEN Out(made.w, n, ops, Response("connect_ok", <<sumo_ip>>))
        ELSE Out(made.w, n, ops, Response("connect_failed", <<sumo_ip>>))

connect_robot(robot, nextCtl, arguments, e) ==
    LET sumo_ip == Get(arguments, "sumo_ip", DefaultIp)
        torn == IF ~robot.none THEN disconnect(robot, e.lib)
                ELSE Returned(robot, <<>>, "none")
        made == SumoWrapper(sumo_ip, e.ctor, nextCtl + 1)
        \* the assignment drops the last reference to the previous wrapper
        dropped == IF ~robot.none THEN del(torn.w, e.lib)
                   ELSE Returned(robot, <<>>, "none")
        ops == torn.ops \o made.ops \o dropped.ops \o ProbeOps(made.w, e.gate)
        n == IF made.w.controller.id # 0 THEN nextCtl + 1 ELSE nextCtl
    IN  IF torn.exc # ""
        THEN Out(torn.w, nextCtl, torn.ops, ErrorResponse("connect_robot", torn.exc))
        ELSE IF made.exc # ""
        THEN Out(torn.w, nextCtl, torn.ops \o made.ops,
                 ErrorResponse("connect_robot", made.exc))
        ELSE IF is_connected(made.w, e.gate)
        THEN Out(made.w, n, ops, Response("connect_ok", <<sumo_ip>>))
        ELSE Out(made.w, n, ops, Response("connect_failed", <<sumo_ip>>))

\* disconnect_robot without `robot = None`: the wrapper stays
disconnect_robot_keeps_wrapper(robot, nextCtl, e) ==
    IF robot.none
    THEN Out(robot, nextCtl, <<>>, Response("no_connection_active", <<>>))
    ELSE LET torn == disconnect(robot, e.lib)
         IN  Out(torn.w, nextCtl, torn.ops, Response("disconnected", <<>>))

\* disconnect_robot without the `if robot is None` return
disconnect_robot_unguarded(robot, nextCtl, e) ==
    IF robot.none
    THEN Out(robot, nextCtl, <<>>,
             ErrorResponse("disconnect_robot",
                           "'NoneType' object has no attribute 'disconnect'"))
    ELSE LET torn == disconnect(robot, e.lib)
         IN  Out(NoRobot, nextCtl, torn.ops, Response("disconnected", <<>>))

disconnect_robot(robot, nextCtl, e) ==
    IF robot.none
    THEN Out(robot, nextCtl, <<>>, Response("no_connection_active", <<>>))
    ELSE LET torn == disconnect(robot, e.lib)
             dropped == del(torn.w, e.lib)
         IN  IF torn.exc # ""
             THEN Out(torn.w, nextCtl, torn.ops,
                      ErrorResponse("disconnect_robot", torn.exc))
             ELSE Out(NoRobot, nextCtl, torn.ops \o dropped.ops,
                      Response("disconnected", <<>>))

get_connection_status(robot, nextCtl, e) ==
    IF robot.none
    THEN Out(robot, nextCtl, <<>>, Response("status_not_connected", <<>>))
    ELSE LET connected == is_connected(robot, e.gate)
             status_text == IF connected THEN "Connected" ELSE "Disconnected"
         IN  Out(robot, nextCtl, ProbeOps(robot, e.gate),
                 Response("status", <<status_text, robot.sumo_ip>>))

\* A branch that calls one wrapper method and answers `ok` when it returns.
\* a handler whose except clause also drops the session
Answer_drops_session(name, nextCtl, gateOps, r, ok) ==
    IF r.exc # ""
    THEN Out(NoRobot, nextCtl, gateOps \o r.ops, ErrorResponse(name, r.exc))
    ELSE Out(r.w, nextCtl, gateOps \o r.ops, ok)

Answer(name, nextCtl, gateOps, r, ok) ==
    IF r.exc # ""
    THEN Out(r.w, nextCtl, gateOps \o r.ops, ErrorResponse(name, r.exc))
    ELSE Out(r.w, nextCtl, gateOps \o r.ops, ok)

move_robot(robot, nextCtl, arguments, e) ==
    LET gateOps == ProbeOps(robot, e.gate)
    IN  IF "speed" \notin DOMAIN arguments
        THEN Out(robot, nextCtl, gateOps, ErrorResponse("move_robot", "'speed'"))
        ELSE LET speed == arguments["speed"]
                 turn == Get(arguments, "turn", 0)
                 duration == Get(arguments, "duration", 1000)
                 direction == IF speed > 0 THEN "forward"
                              ELSE IF speed < 0 THEN "backward" ELSE "no movement"
                 turn_desc == IF turn > 0 THEN "right"
                              ELSE IF turn < 0 THEN "left" ELSE ""
             IN  Answer("move_robot", nextCtl, gateOps,
                        move(robot, speed, turn, duration, e.inner, e.lib),
                        Response("moving", <<direction, Abs(speed), turn_desc,
                                             Abs(turn), duration>>))

camera_frame(robot, nextCtl, e) ==
    LET gateOps == ProbeOps(robot, e.gate)
        r == get_camera_frame(robot, e.inner, e.pic)
        saved == gateOps \o r.ops \o << Op("write_file", 0, <<>>, e.fs) >>
    IN  IF r.exc # ""
        THEN Out(r.w, nextCtl, gateOps \o r.ops, ErrorResponse("get_camera_frame", r.exc))
        ELSE IF r.ret = "none"
        THEN Out(r.w, nextCtl, gateOps \o r.ops, Response("no_frame", <<>>))
        ELSE IF e.fs = "raises"
        THEN Out(r.w, nextCtl, saved, ErrorResponse("get_camera_frame", LibraryError))
        ELSE Out(r.w, nextCtl, saved, ImageResponse("frame", <<r.ret>>))

jump_robot(robot, nextCtl, arguments, e) ==
    LET jump_type == Get(arguments, "jump_type", "long")
        jump_desc == IF jump_type = "long" THEN "long jump (for distance)"
                     ELSE "high jump (for height)"
    IN  Answer("jump_robot", nextCtl, ProbeOps(robot, e.gate),
               jump(robot, jump_type, e.inner),
               Response("jumping", <<jump_desc>>))

posture_robot(robot, nextCtl, arguments, e) ==
    LET posture_type == Get(arguments, "posture_type", "standing")
    IN  Answer("change_posture", nextCtl, ProbeOps(robot, e.gate),
               change_posture(robot, posture_type, e.inner),
               Response("posture", <<posture_type>>))

animation_robot(robot, nextCtl, arguments, e) ==
    LET animation == Get(arguments, "animation", "spin")
    IN  Answer("play_animation", nextCtl, ProbeOps(robot, e.gate),
               play_animation(robot, animation, e.inner),
               Response("animation", <<animation>>))

\* call_tool telling an unknown name before it looks at the connection
call_tool_unknown_first(robot, nextCtl, name, arguments, e) ==
    IF name = "connect_robot" THEN connect_robot(robot, nextCtl, arguments, e)
    ELSE IF name = "disconnect_robot" THEN disconnect_robot(robot, nextCtl, e)
    ELSE IF name = "get_connection_status" THEN get_connection_status(robot, nextCtl, e)
    ELSE IF name \notin {"move_robot", "get_camera_frame", "capture_photo",
                          "jump_robot", "load_jump", "cancel_jump", "stop_jump",
                          "change_posture", "play_animation"}
    THEN Out(robot, nextCtl, <<>>, Response("unknown_tool", <<name>>))
    ELSE IF robot.none
    THEN Out(robot, nextCtl, <<>>, Response("not_connected", <<>>))
    ELSE IF ~is_connected(robot, e.gate)
    THEN Out(robot, nextCtl, ProbeOps(robot, e.gate), Response("connection_lost", <<>>))
    ELSE IF name = "move_robot" THEN move_robot(robot, nextCtl, arguments, e)
    ELSE IF name = "get_camera_frame" THEN camera_frame(robot, nextCtl, e)
    ELSE IF name = "capture_photo"
    THEN Answer(name, nextCtl, ProbeOps(robot, e.gate),
                capture_photo(robot, e.inner, e.lib), Response("photo", <<>>))
    ELSE IF name = "jump_robot" THEN jump_robot(robot, nextCtl, arguments, e)
    ELSE IF name = "load_jump"
    THEN Answer(name, nextCtl, ProbeOps(robot, e.gate),
                load_jump(robot, e.inner), Response("loaded", <<>>))
    ELSE IF name = "cancel_jump"
    THEN Answer(name, nextCtl, ProbeOps(robot, e.gate),
                cancel_jump(robot, e.inner), Response("cancelled", <<>>))
    ELSE IF name = "stop_jump"
    THEN Answer(name, nextCtl, ProbeOps(robot, e.gate),
                stop_jump(robot, e.inner), Response("stopped", <<>>))
    ELSE IF name = "change_posture" THEN posture_robot(robot, nextCtl, arguments, e)
    ELSE IF name = "play_animation" THEN animation_robot(robot, nextCtl, arguments, e)
    ELSE Out(robot, nextCtl, ProbeOps(robot, e.gate), Response("unknown_tool", <<name>>))

call_tool(robot, nextCtl, name, arguments, e) ==
    IF name = "connect_robot" THEN connect_robot(robot, nextCtl, arguments, e)
    ELSE IF name = "disconnect_robot" THEN disconnect_robot(robot, nextCtl, e)
    ELSE IF name = "get_connection_status" THEN get_connection_status(robot, nextCtl, e)
    \* all other commands require an active connection
    ELSE IF robot.none
    THEN Out(robot, nextCtl, <<>>, Response("not_connected", <<>>))
    ELSE IF ~is_connected(robot, e.gate)
    THEN Out(robot, nextCtl, ProbeOps(robot, e.gate), Response("connection_lost", <<>>))
    ELSE IF name = "move_robot" THEN move_robot(robot, nextCtl, arguments, e)
    ELSE IF name = "get_camera_frame" THEN camera_frame(robot, nextCtl, e)
    ELSE IF name = "capture_photo"
    THEN Answer(name, nextCtl, ProbeOps(robot, e.gate),
                capture_photo(robot, e.inner, e.lib), Response("photo", <<>>))
    ELSE IF name = "jump_robot" THEN jump_robot(robot, nextCtl, arguments, e)
    ELSE IF name = "load_jump"
    THEN Answer(name, nextCtl, ProbeOps(robot, e.gate),
                load_jump(robot, e.inner), Response("loaded", <<>>))
    ELSE IF name = "cancel_jump"
    THEN Answer(name, nextCtl, ProbeOps(robot, e.gate),
                cancel_jump(robot, e.inner), Response("cancelled", <<>>))
    ELSE IF name = "stop_jump"
    THEN Answer(name, nextCtl, ProbeOps(robot, e.gate),
                stop_jump(robot, e.inner), Response("stopped", <<>>))
    ELSE IF name = "change_posture" THEN posture_robot(robot, nextCtl, arguments, e)
    ELSE IF name = "play_animation" THEN animation_robot(robot, nextCtl, arguments, e)
    ELSE Out(robot, nextCtl, ProbeOps(robot, e.gate), Response("unknown_tool", <<name>>))

\* ------------------------------------------------------------------------
\* The server as a state machine: one tool call per step
\* ------------------------------------------------------------------------

VARIABLES
    robot,      \* the process-wide SumoWrapper, or NoRobot
    nextCtl,    \* how many SumoController objects have been constructed
    alive,      \* the controllers constructed and not yet released
    call,       \* the tool call handled last: its name and arguments
    ops,        \* the library calls that tool call made, in order
    response,   \* what that tool call returned
    tasks       \* the handler tasks of the event loop, by slot

session == <<robot, nextCtl, alive, call, ops, response>>
vars == <<robot, nextCtl, alive, call, ops, response, tasks>>

\* arguments = {}
NoArguments == [k \in {} |-> 0]

\* Inputs of the tool calls.
IPs == {DefaultIp, OtherIp}
MoveBundles ==
    {[speed |-> 30, turn |-> 0, duration |-> 1000],
     [speed |-> -100, turn |-> 100, duration |-> 25],
     [speed |-> 101, turn |-> 0, duration |-> 1000]}
Speeds == {-101, -100, 0, 100, 101}
Turns == {-101, -100, 100, 101}
Durations == {24, 25}
JumpTypes == {"long", "high", "sideways"}
PostureTypes == {"standing", "jumper", "kicker", "flying"}
AnimationNames ==
    {"stop", "spin", "tap", "slowshake", "metronome", "ondulation", "spinjump",
     "spintoposture", "spiral", "slalom", "moonwalk"}
SomeAnimationNames == {"slalom", "moonwalk"}

\* Answers of the library that a call can read. An answer is enumerated only
\* where the call reads it: the probe only while a controller is held, the
\* second reading only after the first one reported live.
Idle == Env("live", "live", "ok", "ok", "none", "ok")
Held == robot.controller.id # 0
GateOutcomes == IF Held THEN ProbeOutcomes ELSE {"live"}
InnerOutcomes(gate) == IF Held /\ gate = "live" THEN ProbeOutcomes ELSE {"live"}
After(inner, outcomes, unread) == IF Held /\ inner = "live" THEN outcomes ELSE {unread}

\* What a handler sees of the session when it starts.
Snapshot == [robot |-> robot, nextCtl |-> nextCtl, alive |-> alive]
NoSnapshot == [robot |-> NoRobot, nextCtl |-> 0, alive |-> {}]

\* A slot of the event loop without a task. A task has the name and the
\* argument of its call, the place its handler has reached (pc), the
\* answers the library gives it (e), the controller of the blocking library
\* call it is inside (ctl, 0 outside one) and the session it started from.
FreeTask ==
    [pc |-> "free", name |-> "none", arg |-> "", e |-> Idle, ctl |-> 0,
     start |-> NoSnapshot]

Init ==
    /\ robot = NoRobot
    /\ nextCtl = 0
    /\ alive = {}
    /\ call = [name |-> "none", arguments |-> NoArguments]
    /\ ops = <<>>
    /\ response = Response("none", <<>>)
    /\ tasks = [i \in 1..MaxTasks |-> FreeTask]

\* The controllers left alive by the library calls `done`: a constructor that
\* returned adds one, `self.controller = None` lets one go.
AliveAfter(before, done) ==
    (before \cup {done[i].ctl : i \in {j \in DOMAIN done :
                        done[j].op = "SumoController" /\ done[j].out = "ok"}})
    \ {done[i].ctl : i \in {j \in DOMAIN done : done[j].op = "release"}}

\* One run of call_tool from its first statement to its return, in a run
\* whose queues hold at most `bound` frames.
EffectsWithin(bound, name, arguments, e) ==
    \E out \in {call_tool(robot, nextCtl, name, arguments, e)} :
        /\ out.nextCtl <= MaxCtl
        /\ Len(out.robot.controller.commands) <= bound
        /\ robot' = out.robot
        /\ nextCtl' = out.nextCtl
        /\ alive' = AliveAfter(alive, out.ops)
        /\ call' = [name |-> name, arguments |-> arguments]
        /\ ops' = out.ops
        /\ response' = out.response

Effects(name, arguments, e) == EffectsWithin(MaxQueue, name, arguments, e)

\* A tool call of a host that waits for each answer before its next call.
Handle(name, arguments, e) ==
    /\ Effects(name, arguments, e)
    /\ UNCHANGED tasks

ConnectRobot ==
    \E lib \in (IF Held THEN CallOutcomes ELSE {"ok"}), ctor \in CtorOutcomes :
        \E gate \in (IF ctor = "ok" THEN ProbeOutcomes ELSE {"live"}) :
            LET e == [Idle EXCEPT !.lib = lib, !.ctor = ctor, !.gate = gate]
            IN  \/ Handle("connect_robot", NoArguments, e)
                \/ \E ip \in IPs : Handle("connect_robot", [sumo_ip |-> ip], e)

DisconnectRobot ==
    \E lib \in (IF Held THEN CallOutcomes ELSE {"ok"}) :
        Handle("disconnect_robot", NoArguments, [Idle EXCEPT !.lib = lib])

GetConnectionStatus ==
    \E gate \in GateOutcomes :
        Handle("get_connection_status", NoArguments, [Idle EXCEPT !.gate = gate])

\* A command tool: the gate of call_tool reads the probe, the wrapper method
\* reads it again, and `lib` is what the method's library call answers.
CommandEnvs(libOutcomes, unread) ==
    UNION { UNION { { [Idle EXCEPT !.gate = gate, !.inner = inner, !.lib = lib] :
                      lib \in After(inner, libOutcomes, unread) } :
                    inner \in InnerOutcomes(gate) } :
            gate \in GateOutcomes }

MoveRobot ==
    \E e \in CommandEnvs(CallOutcomes, "ok") :
        \/ Handle("move_robot", NoArguments, e)
        \/ Handle("move_robot", [speed |-> 30], e)
        \/ \E a \in MoveBundles : Handle("move_robot", a, e)

\* move_robot over the edges of its ranges
MoveRobotRanges ==
    \E e \in CommandEnvs(CallOutcomes, "ok") :
        \E s \in Speeds, t \in Turns, d \in Durations :
            Handle("move_robot", [speed |-> s, turn |-> t, duration |-> d], e)

GetCameraFrame ==
    \E gate \in GateOutcomes :
        \E inner \in InnerOutcomes(gate) :
            \E pic \in After(inner, PicOutcomes, "none") :
                \E fs \in (IF pic = "frame" THEN CallOutcomes ELSE {"ok"}) :
                    Handle("get_camera_frame", NoArguments,
                           [Idle EXCEPT !.gate = gate, !.inner = inner,
                                        !.pic = pic, !.fs = fs])

CapturePhoto ==
    \E e \in CommandEnvs(CallOutcomes, "ok") :
        Handle("capture_photo", NoArguments, e)

JumpRobot ==
    \E e \in CommandEnvs({"ok"}, "ok") :
        \/ Handle("jump_robot", NoArguments, e)
        \/ \E k \in JumpTypes : Handle("jump_robot", [jump_type |-> k], e)

LoadJump ==
    \E e \in CommandEnvs({"ok"}, "ok") : Handle("load_jump", NoArguments, e)

CancelJump ==
    \E e \in CommandEnvs({"ok"}, "ok") : Handle("cancel_jump", NoArguments, e)

StopJump ==
    \E e \in CommandEnvs({"ok"}, "ok") : Handle("stop_jump", NoArguments, e)

ChangePosture ==
    \E e \in CommandEnvs({"ok"}, "ok") :
        \/ Handle("change_posture", NoArguments, e)
        \/ \E k \in PostureTypes : Handle("change_posture", [posture_type |-> k], e)

PlayAnimation ==
    \E e \in CommandEnvs({"ok"}, "ok") :
        \/ Handle("play_animation", NoArguments, e)
        \/ \E a \in SomeAnimationNames : Handle("play_animation", [animation |-> a], e)

\* play_animation over every declared name
PlayAnimationNames ==
    \E e \in CommandEnvs({"ok"}, "ok") :
        \E a \in AnimationNames : Handle("play_animation", [animation |-> a], e)

UnknownTool ==
    \E gate \in GateOutcomes :
        Handle("fly_robot", NoArguments, [Idle EXCEPT !.gate = gate])

Next ==
    \/ ConnectRobot
    \/ DisconnectRobot
    \/ GetConnectionStatus
    \/ MoveRobot
    \/ GetCameraFrame
    \/ CapturePhoto
    \/ JumpRobot
    \/ LoadJump
    \/ CancelJump
    \/ StopJump
    \/ ChangePosture
    \/ PlayAnimation
    \/ UnknownTool

Spec == Init /\ [][Next]_vars

\* The session with move_robot over the edges of its ranges.
NextMove ==
    \/ ConnectRobot
    \/ DisconnectRobot
    \/ MoveRobotRanges

SpecMove == Init /\ [][NextMove]_vars

\* The session with play_animation over every declared name.
NextAnimation ==
    \/ ConnectRobot
    \/ DisconnectRobot
    \/ PlayAnimationNames

SpecAnimation == Init /\ [][NextAnimation]_vars

\* Calls whose argument the code rejects: move_robot without speed, and an
\* undeclared jump type, posture and animation.
InvalidArguments ==
    \E e \in CommandEnvs({"ok"}, "ok") :
        \/ Handle("move_robot", NoArguments, e)
        \/ Handle("jump_robot", [jump_type |-> "sideways"], e)
        \/ Handle("change_posture", [posture_type |-> "flying"], e)
        \/ Handle("play_animation", [animation |-> "moonwalk"], e)

\* The session with the calls that can fail validation, move_robot over the
\* edges of its ranges.
NextValidation ==
    \/ ConnectRobot
    \/ DisconnectRobot
    \/ MoveRobotRanges
    \/ InvalidArguments

SpecValidation == Init /\ [][NextValidation]_vars

\* The session seen through its connection tools, one frame tool and a tool
\* name the server does not declare.
NextSession ==
    \/ ConnectRobot
    \/ DisconnectRobot
    \/ GetConnectionStatus
    \/ JumpRobot
    \/ UnknownTool

SpecSession == Init /\ [][NextSession]_vars

\* The session with a queue long enough to show the order of its frames:
\* connect_robot, disconnect_robot and the two jumps.
HandleQueued(name, arguments, e) ==
    /\ EffectsWithin(MaxLongQueue, name, arguments, e)
    /\ UNCHANGED tasks

ConnectQueued ==
    \E lib \in (IF Held THEN CallOutcomes ELSE {"ok"}), ctor \in CtorOutcomes :
        \E gate \in (IF ctor = "ok" THEN ProbeOutcomes ELSE {"live"}) :
            HandleQueued("connect_robot", NoArguments,
                         [Idle EXCEPT !.lib = lib, !.ctor = ctor, !.gate = gate])

DisconnectQueued ==
    \E lib \in (IF Held THEN CallOutcomes ELSE {"ok"}) :
        HandleQueued("disconnect_robot", NoArguments, [Idle EXCEPT !.lib = lib])

JumpQueued ==
    \E e \in CommandEnvs({"ok"}, "ok") :
        \E k \in {"long", "high"} : HandleQueued("jump_robot", [jump_type |-> k], e)

NextQueue ==
    \/ ConnectQueued
    \/ DisconnectQueued
    \/ JumpQueued

SpecQueue == Init /\ [][NextQueue]_vars

\* ------------------------------------------------------------------------
\* A host that sends tool calls without waiting for the answers: every call
\* becomes a task of the one event loop started by asyncio.run(main()).
\* ------------------------------------------------------------------------

\* a call_tool whose move_robot branch awaits the end of the move instead
\* of blocking in controller.move
AwaitPoints_move(name) == IF name = "move_robot" THEN {"moving"} ELSE {}

\* The places where a handler gives the event loop to another task.
\* call_tool has no await in its body (`async def` with plain calls only,
\* the blocking controller.move included): there is none.
AwaitPoints(name) == {}

\* The calls the host sends without waiting: the two jumps give frames that
\* differ.
ConcurrentCalls ==
    { <<"connect_robot", "">>, <<"disconnect_robot", "">>, <<"move_robot", "">>,
      <<"jump_robot", "long">>, <<"jump_robot", "high">> }

\* The arguments the concurrent calls carry.
CallArguments(name, arg) ==
    CASE name = "move_robot" -> [speed |-> 30, turn |-> 0, duration |-> 1000]
      [] name = "jump_robot" -> [jump_type |-> arg]
      [] OTHER -> NoArguments

\* The answers of the library a running handler can read: those of a call
\* made alone. connect_robot reads the stop command of the old controller,
\* the constructor and, when it returned, the connected flag;
\* disconnect_robot reads the stop command; a command tool reads the
\* connected flag at the gate, again inside the wrapper method when the gate
\* found it live, and move_robot then reads the blocking controller.move.
TaskEnvs(name) ==
    CASE name = "connect_robot" ->
           UNION { UNION { { [Idle EXCEPT !.lib = lib, !.ctor = ctor, !.gate = gate] :
                             gate \in (IF ctor = "ok" THEN ProbeOutcomes ELSE {"live"}) } :
                           ctor \in CtorOutcomes } :
                   lib \in (IF Held THEN CallOutcomes ELSE {"ok"}) }
      [] name = "disconnect_robot" ->
           { [Idle EXCEPT !.lib = lib] : lib \in (IF Held THEN CallOutcomes ELSE {"ok"}) }
      [] OTHER ->
           UNION { UNION { { [Idle EXCEPT !.gate = gate, !.inner = inner, !.lib = lib] :
                             lib \in (IF Held /\ gate = "live" /\ inner = "live"
                                         /\ name = "move_robot"
                                      THEN CallOutcomes ELSE {"ok"}) } :
                           inner \in (IF Held /\ gate = "live"
                                      THEN ProbeOutcomes ELSE {"live"}) } :
                   gate \in (IF Held THEN ProbeOutcomes ELSE {"live"}) }

\* The handler of the task has started and not returned.
Started(t) == t.pc \in {"gated", "moving", "stopping"}

\* The event loop runs on one thread: task i, or the server's work for it,
\* gets a turn only while no other handler has started and not returned,
\* unless that handler is at an await.
CanRun(i) ==
    \A j \in (1..MaxTasks) \ {i} :
        Started(tasks[j]) => tasks[j].pc \in AwaitPoints(tasks[j].name)

\* The branch of call_tool behind the connection gate.
Branch(name, arguments, e) ==
    IF name = "move_robot" THEN move_robot(robot, nextCtl, arguments, e)
    ELSE jump_robot(robot, nextCtl, arguments, e)

\* The handler goes on to its next statement.
Advance(i, t) ==
    /\ tasks' = [tasks EXCEPT ![i] = t]
    /\ UNCHANGED session

\* The handler returns `out`: the response goes back to the host and the
\* task ends.
Finish(i, out) ==
    /\ robot' = out.robot
    /\ nextCtl' = out.nextCtl
    /\ alive' = AliveAfter(alive, out.ops)
    /\ call' = [name |-> tasks[i].name,
                arguments |-> CallArguments(tasks[i].name, tasks[i].arg)]
    /\ ops' = out.ops
    /\ response' = out.response
    /\ tasks' = [tasks EXCEPT ![i] = FreeTask]

\* The host's request arrives: the server, on the event loop, makes a task
\* for its handler.
Dispatch(i, c) ==
    /\ tasks[i].pc = "free"
    /\ CanRun(i)
    /\ tasks' = [tasks EXCEPT ![i] = [FreeTask EXCEPT !.pc = "created",
                                                       !.name = c[1], !.arg = c[2]]]
    /\ UNCHANGED session

\* The handler starts. connect_robot and disconnect_robot on a wrapper with
\* a controller enter robot.disconnect() and its blocking stop command;
\* without one they run to their return. A command tool passes the
\* connection gate or returns its error.
StartHandler(i) ==
    /\ tasks[i].pc = "created"
    /\ CanRun(i)
    /\ \E e \in TaskEnvs(tasks[i].name) :
         LET t == [tasks[i] EXCEPT !.e = e, !.start = Snapshot]
             whole == call_tool(robot, nextCtl, t.name,
                                CallArguments(t.name, t.arg), e)
         IN  /\ whole.nextCtl <= MaxCtl
             /\ Len(whole.robot.controller.commands) <= MaxLongQueue
             /\ IF t.name \in {"connect_robot", "disconnect_robot"}
                THEN IF Held
                     THEN Advance(i, [t EXCEPT !.pc = "stopping",
                                               !.ctl = robot.controller.id])
                     ELSE Finish(i, whole)
                ELSE IF robot.none \/ ~is_connected(robot, e.gate)
                     THEN Finish(i, whole)
                     ELSE Advance(i, [t EXCEPT !.pc = "gated"])

\* Behind the gate the handler calls the wrapper method: jump appends its
\* frame and returns; move reads the connection, checks its arguments and
\* enters the blocking controller.move, or raises.
CallWrapper(i) ==
    /\ tasks[i].pc = "gated"
    /\ CanRun(i)
    /\ LET t == tasks[i]
           out == Branch(t.name, CallArguments(t.name, t.arg), t.e)
       IN  IF \E k \in DOMAIN out.ops : out.ops[k].op = "move"
           THEN Advance(i, [t EXCEPT !.pc = "moving", !.ctl = robot.controller.id])
           ELSE Finish(i, out)

\* controller.move returns or raises, and the handler returns.
ReturnFromMove(i) ==
    /\ tasks[i].pc = "moving"
    /\ CanRun(i)
    /\ Finish(i, Branch(tasks[i].name,
                        CallArguments(tasks[i].name, tasks[i].arg), tasks[i].e))

\* The stop command of robot.disconnect() returns or raises, the controller
\* is released, and the handler runs to its return.
ReturnFromStop(i) ==
    /\ tasks[i].pc = "stopping"
    /\ CanRun(i)
    /\ Finish(i, call_tool(robot, nextCtl, tasks[i].name,
                           CallArguments(tasks[i].name, tasks[i].arg), tasks[i].e))

NextConcurrent ==
    \E i \in 1..MaxTasks :
        \/ \E c \in ConcurrentCalls : Dispatch(i, c)
        \/ StartHandler(i)
        \/ CallWrapper(i)
        \/ ReturnFromMove(i)
        \/ ReturnFromStop(i)

SpecConcurrent == Init /\ [][NextConcurrent]_vars

\* ------------------------------------------------------------------------
\* Properties
\* ------------------------------------------------------------------------

StopCommand(c, out) == Op("move", c, <<0, 0, StopDuration>>, out)

\* The positions of `ops` holding a call `op`.
OpsOf(op) == {i \in DOMAIN ops : ops[i].op = op}

\* C1: the controllers alive are at most one, the one `robot` holds; and a
\* connect_robot issued while a controller is held first attempts the stop
\* command on it, then releases it, and only then constructs the one new
\* SumoController.
C1_SingleConnection ==
    [][ /\ Cardinality(alive') <= 1
        /\ alive' = (IF robot'.controller.id # 0 THEN {robot'.controller.id} ELSE {})
        /\ (call'.name = "connect_robot" /\ Held =>
              /\ Len(ops') >= 3
              /\ ops'[1] = StopCommand(robot.controller.id, ops'[1].out)
              /\ ops'[2] = Op("release", robot.controller.id, <<>>, "ok")
              /\ {i \in DOMAIN ops' : ops'[i].op = "SumoController"} = {3}
              /\ {i \in DOMAIN ops' : ops'[i].op \in {"move", "release"}} = {1, 2}
              /\ robot'.controller.id # robot.controller.id
              /\ robot.controller.id \notin alive')
      ]_vars

\* A connect_robot replaced a held controller by a new one.
C1_Witness ==
    /\ call.name = "connect_robot"
    /\ Len(ops) >= 3
    /\ ops[2].op = "release"
    /\ ops[3].op = "SumoController" /\ ops[3].out = "ok"
    /\ Held
    /\ robot.controller.id = ops[3].ctl
    /\ ops[2].ctl # ops[3].ctl

\* C2: disconnect_robot with no robot changes nothing, calls nothing and
\* answers without an error; SumoWrapper.disconnect on a wrapper without a
\* controller sends nothing; after any disconnect_robot there is no robot, so
\* a second one changes nothing.
C2_DisconnectIdempotent ==
    [][ /\ (call'.name = "disconnect_robot" =>
              /\ response'.kind \in {"no_connection_active", "disconnected"}
              /\ robot' = NoRobot
              /\ alive' = {}
              /\ nextCtl' = nextCtl
              /\ (robot.none =>
                    /\ robot' = robot
                    /\ alive' = alive
                    /\ ops' = <<>>
                    /\ response'.kind = "no_connection_active")
              /\ (~robot.none /\ ~Held => ops' = <<>> /\ alive' = alive))
        /\ (call'.name = "connect_robot" /\ ~robot.none /\ ~Held =>
              {i \in DOMAIN ops' : ops'[i].op \in {"move", "release"}} = {})
      ]_vars

\* disconnect_robot was called twice in a row.
C2_Witness ==
    /\ call.name = "disconnect_robot"
    /\ response.kind = "no_connection_active"
    /\ robot = NoRobot
    /\ nextCtl > 0

\* C3: a teardown whose stop command raises still releases the controller and
\* the tool call answers without an error.
C3_DisconnectNeverRaises ==
    call.name \in {"disconnect_robot", "connect_robot"} =>
        /\ response.kind # "error"
        /\ \A i \in OpsOf("move") :
              /\ ops[i] = StopCommand(ops[i].ctl, ops[i].out)
              /\ i < Len(ops)
              /\ ops[i + 1] = Op("release", ops[i].ctl, <<>>, "ok")
              /\ ops[i].ctl \notin alive
              /\ robot.controller.id # ops[i].ctl

\* A disconnect_robot whose stop command raised.
C3_Witness ==
    /\ call.name = "disconnect_robot"
    /\ Len(ops) = 2
    /\ ops[1].op = "move" /\ ops[1].out = "raises"
    /\ ops[2].op = "release"
    /\ response.kind = "disconnected"

\* C4: get_connection_status, which reports is_connected, says "Connected"
\* exactly when a controller is held and its probe reported live; without a
\* controller, and when the probe raises, it says "Disconnected"; it never
\* answers with an error.
C4_IsConnected ==
    call.name = "get_connection_status" /\ ~robot.none =>
        /\ response.kind = "status"
        /\ (response.detail[1] = "Connected" <=>
              Held /\ ops = << Op("connected", robot.controller.id, <<>>, "live") >>)
        /\ (response.detail[1] # "Connected" => response.detail[1] = "Disconnected")
        /\ (~Held => ops = <<>>)

\* The probe raised and the status is "Disconnected".
C4_Witness ==
    /\ call.name = "get_connection_status"
    /\ Held
    /\ Len(ops) = 1 /\ ops[1].op = "connected" /\ ops[1].out = "raises"
    /\ response.kind = "status" /\ response.detail[1] = "Disconnected"

\* C5: a connect_robot whose constructor timed out or failed leaves a robot
\* without a controller, which is_connected reports as not connected whatever
\* the probe, and answers with the failure text, not with an error.
C5_FailedConnect ==
    call.name = "connect_robot"
    /\ (\E i \in OpsOf("SumoController") : ops[i].out \in {"timeout", "error"}) =>
        /\ ~Held
        /\ alive = {}
        /\ \A p \in ProbeOutcomes : ~is_connected(robot, p)
        /\ response.kind = "connect_failed"
        /\ OpsOf("connected") = {}

\* A connect_robot timed out while a controller was held.
C5_Witness ==
    /\ call.name = "connect_robot"
    /\ Len(ops) = 3
    /\ ops[2].op = "release"
    /\ ops[3].op = "SumoController" /\ ops[3].out = "timeout"
    /\ response.kind = "connect_failed"
    /\ ~Held

\* Both readings of the probe, the gate's and the wrapper method's, reported
\* live.
LiveCall ==
    /\ Held
    /\ Len(ops) >= 2
    /\ ops[1] = Op("connected", robot.controller.id, <<>>, "live")
    /\ ops[2] = Op("connected", robot.controller.id, <<>>, "live")

MoveSpeed == call.arguments["speed"]
MoveTurn == Get(call.arguments, "turn", 0)
MoveDuration == Get(call.arguments, "duration", 1000)

\* speed and turn in [-100, 100], duration at least 0.025 s
MoveInRange ==
    /\ -100 <= MoveSpeed /\ MoveSpeed <= 100
    /\ -100 <= MoveTurn /\ MoveTurn <= 100
    /\ MoveDuration >= 25

MoveValidationErrors ==
    {"Speed must be between -100 and 100", "Turn must be between -100 and 100",
     "Duration must be at least 0.025 seconds"}

\* C6: on a live connection a move_robot whose arguments are in range makes
\* exactly one controller.move call, carrying the speed, turn and duration
\* given, and answers with the confirmation when that call returns.
C6_MoveAccepted ==
    call.name = "move_robot" /\ LiveCall /\ "speed" \in DOMAIN call.arguments
    /\ MoveInRange =>
        /\ Len(ops) = 3
        /\ ops[3].op = "move"
        /\ ops[3].ctl = robot.controller.id
        /\ ops[3].args = <<MoveSpeed, MoveTurn, MoveDuration>>
        /\ OpsOf("move") = {3}
        /\ (ops[3].out = "ok" => response.kind = "moving")
        /\ (ops[3].out = "raises" =>
              response = ErrorResponse("move_robot", LibraryError))

\* A move at the edges -100, 100 and 0.025 s was sent.
C6_Witness ==
    /\ call.name = "move_robot"
    /\ call.arguments = [speed |-> -100, turn |-> 100, duration |-> 25]
    /\ LiveCall
    /\ Len(ops) = 3
    /\ ops[3].op = "move" /\ ops[3].args = <<-100, 100, 25>>
    /\ response.kind = "moving"

\* C7: a move_robot with an argument out of range makes no controller.move
\* call; on a live connection it answers with the validation error.
C7_MoveRejected ==
    call.name = "move_robot" /\ "speed" \in DOMAIN call.arguments
    /\ ~MoveInRange =>
        /\ OpsOf("move") = {}
        /\ response.kind # "moving"
        /\ (LiveCall =>
              /\ Len(ops) = 2
              /\ response.kind = "error"
              /\ response.detail[1] = "move_robot"
              /\ response.detail[2] \in MoveValidationErrors)

\* A move of 0.024 s, its speed and turn in range, was rejected.
C7_Witness ==
    /\ call.name = "move_robot"
    /\ call.arguments = [speed |-> 100, turn |-> -100, duration |-> 24]
    /\ LiveCall
    /\ OpsOf("move") = {}
    /\ response = ErrorResponse("move_robot", "Duration must be at least 0.025 seconds")

\* The frame a call appended, and the last frame of the queue.
Appended == ops[3].args[1]
LastQueued == robot.controller.commands[Len(robot.controller.commands)]

\* The call made its two probes and one append, to the held controller, and
\* the frame is the last of its queue.
OneFrameEnqueued ==
    /\ Len(ops) = 3
    /\ ops[3].op = "append"
    /\ ops[3].ctl = robot.controller.id
    /\ Len(robot.controller.commands) >= 1
    /\ LastQueued = Appended

JumpKind == Get(call.arguments, "jump_type", "long")

\* C8: on a live connection jump_robot with "long" or "high" enqueues one
\* frame on channel 11, project 3, class 2, offset 3, whose payload is the
\* little-endian u32 0 for "long" and 1 for "high"; any other kind is
\* rejected and nothing is appended.
C8_JumpFrame ==
    call.name = "jump_robot" /\ LiveCall =>
        IF JumpKind \in {"long", "high"}
        THEN /\ OneFrameEnqueued
             /\ Appended.channel = 11
             /\ Appended.project = 3
             /\ Appended.class = 2
             /\ Appended.cmd = 3
             /\ Appended.payload =
                    (IF JumpKind = "long" THEN <<0, 0, 0, 0>> ELSE <<1, 0, 0, 0>>)
             /\ response.kind = "jumping"
        ELSE /\ OpsOf("append") = {}
             /\ Len(ops) = 2
             /\ response = ErrorResponse("jump_robot", "Jump type must be 'long' or 'high'")

\* A high jump was enqueued.
C8_Witness ==
    /\ call.name = "jump_robot"
    /\ call.arguments = [jump_type |-> "high"]
    /\ LiveCall
    /\ OneFrameEnqueued
    /\ Appended.payload = <<1, 0, 0, 0>>

PostureKind == Get(call.arguments, "posture_type", "standing")
DeclaredPostures == <<"standing", "jumper", "kicker">>

\* C9: on a live connection change_posture with standing, jumper or kicker
\* enqueues one frame on channel 10, project 3, class 0, offset 1, with the
\* little-endian u32 0, 1, 2 respectively; any other kind is rejected and
\* nothing is appended.
C9_PostureFrame ==
    call.name = "change_posture" /\ LiveCall =>
        IF \E i \in DOMAIN DeclaredPostures : DeclaredPostures[i] = PostureKind
        THEN /\ OneFrameEnqueued
             /\ Appended.channel = 10
             /\ Appended.project = 3
             /\ Appended.class = 0
             /\ Appended.cmd = 1
             /\ \A i \in DOMAIN DeclaredPostures :
                    DeclaredPostures[i] = PostureKind =>
                        Appended.payload = <<i - 1, 0, 0, 0>>
             /\ response.kind = "posture"
        ELSE /\ OpsOf("append") = {}
             /\ Len(ops) = 2
             /\ response.kind = "error"
             /\ response.detail[1] = "change_posture"

\* The kicker posture was enqueued.
C9_Witness ==
    /\ call.name = "change_posture"
    /\ call.arguments = [posture_type |-> "kicker"]
    /\ LiveCall
    /\ OneFrameEnqueued
    /\ Appended.payload = <<2, 0, 0, 0>>

AnimationName == Get(call.arguments, "animation", "spin")
DeclaredAnimations ==
    <<"stop", "spin", "tap", "slowshake", "metronome", "ondulation", "spinjump",
      "spintoposture", "spiral", "slalom">>

\* C10: on a live connection play_animation with one of the ten declared
\* names enqueues one frame on channel 11, class 2, offset 4, whose payload
\* is the little-endian u32 of the name's place, 0 to 9, in the declared
\* order; any other name is rejected and nothing is appended.
C10_AnimationFrame ==
    call.name = "play_animation" /\ LiveCall =>
        IF \E i \in DOMAIN DeclaredAnimations : DeclaredAnimations[i] = AnimationName
        THEN /\ OneFrameEnqueued
             /\ Appended.channel = 11
             /\ Appended.class = 2
             /\ Appended.cmd = 4
             /\ \A i \in DOMAIN DeclaredAnimations :
                    DeclaredAnimations[i] = AnimationName =>
                        Appended.payload = <<i - 1, 0, 0, 0>>
             /\ response.kind = "animation"
        ELSE /\ OpsOf("append") = {}
             /\ Len(ops) = 2
             /\ response.kind = "error"
             /\ response.detail[1] = "play_animation"

\* The tenth animation, slalom, was enqueued with the value 9.
C10_Witness ==
    /\ call.name = "play_animation"
    /\ call.arguments = [animation |-> "slalom"]
    /\ LiveCall
    /\ OneFrameEnqueued
    /\ Appended.payload = <<9, 0, 0, 0>>

FrameTools ==
    {"jump_robot", "load_jump", "cancel_jump", "stop_jump", "change_posture",
     "play_animation"}

\* The confirmations of the six frame tools.
FrameConfirmations ==
    {"jumping", "loaded", "cancelled", "stopped", "posture", "animation"}

\* C11: a frame tool that answers with its confirmation found a controller
\* whose probe reported live at both readings and appended exactly one frame
\* to the end of that controller's queue, changing nothing else; one that
\* does not find a live controller answers with a failure and leaves the
\* robot, its controller and the queue as they were.
C11_OneFrameWhenLive ==
    [][ call'.name \in FrameTools =>
          LET succeeded == response'.kind \in FrameConfirmations
              live == /\ Held
                      /\ Len(ops') >= 2
                      /\ ops'[1] = Op("connected", robot.controller.id, <<>>, "live")
                      /\ ops'[2] = Op("connected", robot.controller.id, <<>>, "live")
              appends == {i \in DOMAIN ops' : ops'[i].op = "append"}
          IN  /\ (succeeded =>
                    /\ live
                    /\ Len(ops') = 3
                    /\ appends = {3}
                    /\ ops'[3].ctl = robot.controller.id
                    /\ robot' = [robot EXCEPT !.controller.commands =
                                                  Append(@, ops'[3].args[1])])
              /\ (~succeeded =>
                    /\ robot' = robot
                    /\ appends = {}
                    /\ response'.kind \in {"not_connected", "connection_lost", "error"})
              /\ (~live => ~succeeded)
              /\ alive' = alive
              /\ nextCtl' = nextCtl
      ]_vars

\* load_jump appended its frame to a live controller's queue.
C11_Witness ==
    /\ call.name = "load_jump"
    /\ response.kind = "loaded"
    /\ LiveCall
    /\ OneFrameEnqueued

\* C12 as stated: while no SumoController has ever been constructed, so that
\* no connect_robot can have succeeded, get_camera_frame answers with the
\* "Not connected to robot" response.
C12_NotConnectedBeforeConnect ==
    call.name = "get_camera_frame" /\ nextCtl = 0 =>
        response = Response("not_connected", <<>>)

\* C13: on a live connection whose library calls return, move_robot(30, 0,
\* 1.0) answers with the confirmation of a forward move at 30% for 1.0 s and
\* jump_robot("high") with the confirmation of the high jump; disconnect_robot
\* on an existing robot answers with its success confirmation and leaves no
\* robot; from then on there is no robot until the next connect_robot, and
\* every get_connection_status in between reports not connected.
C13_Scenario ==
    [][ /\ (/\ call'.name = "move_robot"
            /\ call'.arguments = [speed |-> 30, turn |-> 0, duration |-> 1000]
            /\ LiveCall'
            /\ ops'[3].out = "ok"
            => response' = Response("moving", <<"forward", 30, "", 0, 1000>>))
        /\ (/\ call'.name = "jump_robot"
            /\ call'.arguments = [jump_type |-> "high"]
            /\ LiveCall'
            => response' = Response("jumping", <<"high jump (for height)">>))
        /\ (call'.name = "disconnect_robot" /\ ~robot.none =>
              /\ response' = Response("disconnected", <<>>)
              /\ robot'.none)
        /\ (robot.none /\ call'.name # "connect_robot" => robot'.none)
        /\ (call'.name = "get_connection_status" /\ robot.none =>
              response' = Response("status_not_connected", <<>>))
      ]_vars

\* A get_connection_status after the disconnect of a robot whose controller
\* had been constructed reported not connected.
C13_Witness ==
    /\ call.name = "get_connection_status"
    /\ robot.none
    /\ nextCtl >= 1
    /\ response = Response("status_not_connected", <<>>)

TextKinds ==
    { "connect_ok", "connect_failed", "no_connection_active", "disconnected",
      "status_not_connected", "status", "not_connected", "connection_lost",
      "moving", "no_frame", "photo", "jumping", "loaded", "cancelled",
      "stopped", "posture", "animation", "unknown_tool", "error" }

\* The last library call of the handler raised inside the wrapper's uncaught
\* part (move, store_pic) or inside the handler itself (the frame file).
TransportFailure ==
    /\ call.name \notin {"connect_robot", "disconnect_robot"}
    /\ ops # <<>>
    /\ ops[Len(ops)].op \in {"move", "store_pic", "write_file"}
    /\ ops[Len(ops)].out = "raises"

\* C14: every call, whatever the tool name, the arguments and the session
\* state, ends in a response that is a text or an image; a failure raised by
\* the wrapper or by the library (lost connection found by the wrapper,
\* rejected value, missing speed, failed library call) ends in the text
\* "Error executing <name>: <message>" and never leaves the handler.
C14_NeverPropagates ==
    call.name # "none" =>
        /\ response.kind \in TextKinds \cup {"frame"}
        /\ response.image = (response.kind = "frame")
        /\ (TransportFailure =>
              response = Response("error", <<call.name, LibraryError>>))
        /\ (call.name = "move_robot" /\ "speed" \notin DOMAIN call.arguments
              /\ ops # <<>> /\ ops[1].out = "live" =>
              response = Response("error", <<"move_robot", "'speed'">>))
        /\ (call.name = "jump_robot" /\ LiveCall /\ "jump_type" \in DOMAIN call.arguments
              /\ call.arguments.jump_type \notin {"long", "high"} =>
              response = Response("error", <<"jump_robot", "Jump type must be 'long' or 'high'">>))
        /\ (Held /\ Len(ops) = 2 /\ ops[1].out = "live" /\ ops[2].out # "live"
              /\ call.name \notin {"connect_robot", "disconnect_robot", "get_connection_status"} =>
              response = Response("error", <<call.name, "Robot not connected">>))

\* A move on a live connection whose library call raised was answered with
\* the error text.
C14_Witness ==
    /\ call.name = "move_robot"
    /\ LiveCall
    /\ TransportFailure
    /\ response.kind = "error"

\* C15 as stated: on a live connection get_camera_frame answers "no camera
\* frame available yet" only when the library had no frame to give; a get_pic
\* that raised is answered with the error text.
C15_NoFrameOnlyWhenNone ==
    call.name = "get_camera_frame" /\ LiveCall /\ Len(ops) >= 3 /\ ops[3].op = "get_pic" =>
        /\ (response.kind = "no_frame" => ops[3].out = "none")
        /\ (ops[3].out = "raises" => response.kind = "error")

JumpMotorOffsets == [stop_jump |-> 0, cancel_jump |-> 1, load_jump |-> 2]

\* C17: on a live connection stop_jump, cancel_jump and load_jump each enqueue
\* one frame on the acknowledged command channel 11, project 3, class 2
\* (Jumping), with no payload, with command offset 0 for stop, 1 for cancel
\* and 2 for load, and with acknowledgement type 4.
C17_JumpMotorFrames ==
    call.name \in DOMAIN JumpMotorOffsets /\ LiveCall =>
        /\ OneFrameEnqueued
        /\ Appended = [ack |-> 4, channel |-> 11, project |-> 3, class |-> 2,
                       cmd |-> JumpMotorOffsets[call.name], payload |-> <<>>]

\* A cancel_jump on a live connection enqueued its frame.
C17_Witness ==
    /\ call.name = "cancel_jump"
    /\ LiveCall
    /\ OneFrameEnqueued
    /\ Appended.cmd = 1
    /\ response.kind = "cancelled"

\* The logical operations that build a frame: the wrapper method and its
\* enum value ("" where the method takes none).
LogicalOps ==
    { <<"stop_jump", "">>, <<"cancel_jump", "">>, <<"load_jump", "">> }
    \cup { <<"jump", k>> : k \in {"long", "high"} }
    \cup { <<"play_animation", DeclaredAnimations[i]>> : i \in DOMAIN DeclaredAnimations }
    \cup { <<"change_posture", DeclaredPostures[i]>> : i \in DOMAIN DeclaredPostures }

\* The frame the wrapper w appends for a logical operation on a live
\* connection.
FrameFor(w, a) ==
    LET r == CASE a[1] = "stop_jump" -> stop_jump(w, "live")
               [] a[1] = "cancel_jump" -> cancel_jump(w, "live")
               [] a[1] = "load_jump" -> load_jump(w, "live")
               [] a[1] = "jump" -> jump(w, a[2], "live")
               [] a[1] = "play_animation" -> play_animation(w, a[2], "live")
               [] a[1] = "change_posture" -> change_posture(w, a[2], "live")
    IN  r.ops[Len(r.ops)].args[1]

Layout(f) == <<f.channel, f.project, f.class, f.cmd, f.payload>>

\* A wrapper of another session: first controller, empty queue.
FreshWrapper ==
    [none |-> FALSE, sumo_ip |-> DefaultIp, controller |-> [id |-> 1, commands |-> <<>>]]

\* The logical operation of the current call.
CallOp ==
    CASE call.name = "jump_robot" -> <<"jump", JumpKind>>
      [] call.name = "play_animation" -> <<"play_animation", AnimationName>>
      [] call.name = "change_posture" -> <<"change_posture", PostureKind>>
      [] OTHER -> <<call.name, "">>

\* C18: whatever the session state, two distinct (operation, enum value)
\* pairs among stop_jump, cancel_jump, load_jump, jump(long, high), the ten
\* animations and the three postures give frames that differ in (channel,
\* project, class, command offset, payload); the frame of a pair is the same
\* in every session state, and it is the frame the tool call appends.
C18_LayoutInjective ==
    LET w == IF Held THEN robot ELSE FreshWrapper
    IN  /\ Cardinality({Layout(FrameFor(w, a)) : a \in LogicalOps})
              = Cardinality(LogicalOps)
        /\ \A a \in LogicalOps : FrameFor(w, a) = FrameFor(FreshWrapper, a)
        /\ (call.name \in FrameTools /\ LiveCall /\ response.kind \in FrameConfirmations =>
              /\ CallOp \in LogicalOps
              /\ OneFrameEnqueued
              /\ Appended = FrameFor(FreshWrapper, CallOp))

\* A jump on the second controller of the session appended the frame of its
\* pair.
C18_Witness ==
    /\ call.name = "jump_robot"
    /\ LiveCall
    /\ robot.controller.id = 2
    /\ response.kind = "jumping"
    /\ CallOp = <<"jump", "high">>
    /\ Appended = FrameFor(FreshWrapper, CallOp)

PreconditionErrors ==
    MoveValidationErrors \cup
    { "Robot not connected",
      "Jump type must be 'long' or 'high'",
      "Posture type must be one of: ['standing', 'jumper', 'kicker']",
      "Animation must be one of: ['stop', 'spin', 'tap', 'slowshake', 'metronome', 'ondulation', 'spinjump', 'spintoposture', 'spiral', 'slalom']" }

\* The call was rejected for a precondition: no robot, dead connection, a
\* number out of range or an unknown enum name.
Rejected ==
    \/ response.kind \in {"not_connected", "connection_lost"}
    \/ /\ response.kind = "error"
       /\ response.detail[2] \in PreconditionErrors

\* C19: a call rejected for a precondition leaves the session as it was: the
\* robot reference with its controller, its address and its command queue are
\* unchanged, no controller is made or released, and the call asked the
\* library for nothing but the connected flag.
C19_RejectedLeavesSession ==
    [][ Rejected' =>
          /\ robot' = robot
          /\ alive' = alive
          /\ nextCtl' = nextCtl
          /\ \A i \in DOMAIN ops' : ops'[i].op = "connected"
      ]_vars

\* A jump with an unknown type was rejected on a live connection whose queue
\* held a frame.
C19_Witness ==
    /\ call.name = "jump_robot"
    /\ LiveCall
    /\ response = Response("error", <<"jump_robot", "Jump type must be 'long' or 'high'">>)
    /\ Len(robot.controller.commands) = 1

CommandTools ==
    { "move_robot", "get_camera_frame", "capture_photo", "jump_robot",
      "load_jump", "cancel_jump", "stop_jump", "change_posture",
      "play_animation" }

\* The library calls of the current call that command a controller.
CommandsSent ==
    {i \in DOMAIN ops : ops[i].op \in {"move", "append", "get_pic", "store_pic"}}

\* No Connection exists: there is no robot, or the robot is a wrapper
\* without a controller (what a connect_robot whose constructor raised
\* leaves).
ConnectionAbsent == robot.none \/ ~Held

\* A Connection exists and a reading of its liveness failed: the first or
\* the second reading of controller.connected was not live.
ConnectionDead ==
    /\ Held
    /\ \/ Len(ops) >= 1 /\ ops[1].out # "live"
       \/ Len(ops) >= 2 /\ ops[2].op = "connected" /\ ops[2].out # "live"

\* C20 as stated: for each of the nine command tools, a call made while no
\* Connection exists is answered "Not connected to robot", a call made on a
\* Connection whose liveness reading fails is answered with another text
\* ("Robot connection lost", or the wrapper's "Robot not connected" when the
\* second reading fails), and in neither case a command reaches a
\* controller.
C20_AbsentAndDeadDistinct ==
    call.name \in CommandTools =>
        /\ (ConnectionAbsent =>
              /\ response = Response("not_connected", <<>>)
              /\ CommandsSent = {})
        /\ (ConnectionDead =>
              /\ response # Response("not_connected", <<>>)
              /\ CommandsSent = {}
              /\ IF Len(ops) >= 2
                 THEN response = Response("error", <<call.name, "Robot not connected">>)
                 ELSE response = Response("connection_lost", <<>>))

\* C21: a disconnect_robot or a connect_robot made while the wrapper holds a
\* controller attempts the stop command move(0, 0, 0.1) on that controller
\* exactly once, as its first library call and without reading the
\* connected flag, then releases the controller; whether the stop returns or
\* raises makes no difference, and without a controller no stop is sent.
C21_OneStopBeforeRelease ==
    [][ call'.name \in {"connect_robot", "disconnect_robot"} =>
          LET c == robot.controller.id
              stops == {i \in DOMAIN ops' : ops'[i].op = "move"}
              releases == {i \in DOMAIN ops' : ops'[i].op = "release"}
          IN  IF Held
              THEN /\ Len(ops') >= 2
                   /\ ops'[1] \in {StopCommand(c, "ok"), StopCommand(c, "raises")}
                   /\ ops'[2] = Op("release", c, <<>>, "ok")
                   /\ stops = {1}
                   /\ releases = {2}
                   /\ c \notin alive'
                   /\ robot'.controller.id # c
              ELSE stops = {} /\ releases = {}
      ]_vars

\* A connect_robot replaced a controller whose stop command raised: the stop
\* was attempted, then the controller released, then the new one made.
C21_Witness ==
    /\ call.name = "connect_robot"
    /\ Len(ops) >= 3
    /\ ops[1] = StopCommand(1, "raises")
    /\ ops[2] = Op("release", 1, <<>>, "ok")
    /\ ops[3].op = "SumoController"
    /\ robot.controller.id = 2

\* The argument of the current call is one the code rejects.
InvalidArgument ==
    CASE call.name = "move_robot" ->
           IF "speed" \in DOMAIN call.arguments THEN ~MoveInRange ELSE TRUE
      [] call.name = "jump_robot" -> JumpKind \notin {"long", "high"}
      [] call.name = "change_posture" ->
           PostureKind \notin {DeclaredPostures[i] : i \in DOMAIN DeclaredPostures}
      [] call.name = "play_animation" ->
           AnimationName \notin {DeclaredAnimations[i] : i \in DOMAIN DeclaredAnimations}
      [] OTHER -> FALSE

\* The response is the error of a rejected argument.
ValidationError ==
    /\ response.kind = "error"
    /\ response.detail[2] \in (PreconditionErrors \ {"Robot not connected"}) \cup {"'speed'"}

\* Every reading of controller.connected the call made was live, and it made
\* at least one.
ReadingsLive ==
    /\ Held
    /\ ops # <<>>
    /\ \A i \in DOMAIN ops : ops[i].op = "connected" /\ ops[i].out = "live"

\* C22: a command tool called with an argument the code rejects answers with
\* the connection error (no robot, connection lost, or the wrapper's "Robot
\* not connected") whenever there is no robot or a reading of the connection
\* fails; the validation error is returned only after every reading of the
\* connection was live (the handler's, and the wrapper's own unless the
\* speed is missing), and then it is returned.
C22_ConnectionBeforeValidation ==
    call.name \in CommandTools =>
        /\ (ValidationError =>
              /\ InvalidArgument
              /\ ReadingsLive
              /\ Len(ops) = IF response.detail[2] = "'speed'" THEN 1 ELSE 2)
        /\ (InvalidArgument /\ (ConnectionAbsent \/ ConnectionDead) =>
              /\ ~ValidationError
              /\ \/ response = Response("not_connected", <<>>)
                 \/ response = Response("connection_lost", <<>>)
                 \/ response = Response("error", <<call.name, "Robot not connected">>))
        /\ (InvalidArgument /\ ReadingsLive => ValidationError)

\* A move with a turn out of range on a robot whose connection was dead was
\* answered with the lost-connection text.
C22_Witness ==
    /\ call.name = "move_robot"
    /\ "speed" \in DOMAIN call.arguments
    /\ MoveTurn = 101
    /\ Held
    /\ ConnectionDead
    /\ response = Response("connection_lost", <<>>)

\* The names in TOOLS.
DeclaredTools ==
    CommandTools \cup {"connect_robot", "disconnect_robot", "get_connection_status"}

\* C23: a call whose name is none of the twelve declared tools leaves the
\* robot, its controller and its queue as they were and asks the library for
\* nothing but the connected flag; it is answered "Unknown tool" exactly
\* when the robot holds a controller whose connected flag reads live, "Not
\* connected to robot" when there is no robot and "Robot connection lost"
\* in the remaining cases.
C23_UnknownTool ==
    [][ call'.name \notin DeclaredTools =>
          LET live == /\ Held
                      /\ ops' = << Op("connected", robot.controller.id, <<>>, "live") >>
          IN  /\ robot' = robot
              /\ alive' = alive
              /\ nextCtl' = nextCtl
              /\ \A i \in DOMAIN ops' : ops'[i].op = "connected"
              /\ response' =
                    IF robot.none THEN Response("not_connected", <<>>)
                    ELSE IF live THEN Response("unknown_tool", <<call'.name>>)
                    ELSE Response("connection_lost", <<>>)
      ]_vars

\* An undeclared tool was called on a live connection with a frame in its
\* queue and was answered "Unknown tool".
C23_Witness ==
    /\ call.name = "fly_robot"
    /\ Held
    /\ Len(robot.controller.commands) = 1
    /\ response = Response("unknown_tool", <<"fly_robot">>)

\* C24 as stated: after a connect_robot that answered with its failure text
\* the robot is a wrapper without a controller and no controller is left
\* alive, so that a following disconnect_robot has no stop command to send.
C24_FailedConnectHoldsNothing ==
    call.name = "connect_robot" /\ response.kind = "connect_failed" =>
        /\ ~robot.none
        /\ ~Held
        /\ alive = {}

\* C25: a frame is appended only by a call made while the wrapper holds a
\* controller, to that controller, at the end of its queue, and the queue
\* of the current controller changes in no other way, so the queue holds
\* the frames in the order of the calls; a controller that has been
\* released is never addressed again, neither in the rest of the call that
\* released it (the __del__ of its wrapper included) nor by any later call:
\* no frame, no second stop command.
C25_FramesToCurrentController ==
    [][ LET c == robot.controller.id
            appends == {i \in DOMAIN ops' : ops'[i].op = "append"}
            released == (1..nextCtl) \ alive
        IN  /\ \A i \in DOMAIN ops' : ops'[i].ctl \notin released
            /\ \A i, j \in DOMAIN ops' :
                  i < j /\ ops'[i].op = "release" => ops'[j].ctl # ops'[i].ctl
            /\ \A i \in appends :
                  /\ Held
                  /\ c \in alive
                  /\ ops'[i].ctl = c
                  /\ appends = {i}
                  /\ robot' = [robot EXCEPT !.controller.commands =
                                              Append(@, ops'[i].args[1])]
            /\ (appends = {} /\ robot'.controller.id = c =>
                  robot'.controller.commands = robot.controller.commands)
      ]_vars

\* The second controller of the session holds a long jump and then a high
\* jump, in the order of the two calls, after the first controller was
\* released.
C25_Witness ==
    /\ robot.controller.id = 2
    /\ alive = {2}
    /\ call.name = "jump_robot"
    /\ LiveCall
    /\ OneFrameEnqueued
    /\ robot.controller.commands =
          << fab_cmd(4, 11, 3, 2, 3, <<0, 0, 0, 0>>),
             fab_cmd(4, 11, 3, 2, 3, <<1, 0, 0, 0>>) >>

\* The tasks whose handler has started and not returned.
Running == {i \in 1..MaxTasks : Started(tasks[i])}

\* C16: when the host has several tool calls outstanding at once, the
\* handlers take effect one after the other. At most one handler has started
\* and not returned, and while it has, no other task moves and the session
\* is the one it started from; in particular the controller of a move (or of
\* a stop command) in flight is still the live controller of the robot, so
\* no disconnect takes effect inside a move. A handler that returns leaves
\* the robot, the controllers, the library calls and the response that
\* call_tool gives when run alone on the session the handler started from,
\* so the session is the one of the calls made one by one in the order the
\* handlers ran; and the queue of the current controller changes only by
\* the frame of the returning jump appended at its end, so the frames of
\* different calls follow each other in that order.
C16_Serialized ==
    [][ /\ Cardinality(Running') <= 1
        /\ \A i \in Running' :
              /\ tasks'[i].start = Snapshot'
              /\ tasks'[i].ctl # 0 =>
                    /\ tasks'[i].ctl \in alive'
                    /\ robot'.controller.id = tasks'[i].ctl
        /\ \A i \in Running :
              \A k \in (1..MaxTasks) \ {i} : tasks'[k] = tasks[k]
        /\ \A i \in 1..MaxTasks :
              tasks[i].pc # "free" /\ tasks'[i].pc = "free" =>
                 LET t == tasks[i]
                     from == IF t.pc = "created" THEN Snapshot ELSE t.start
                     envs == IF t.pc = "created" THEN TaskEnvs(t.name) ELSE {t.e}
                 IN  \E e \in envs :
                        \E alone \in {call_tool(from.robot, from.nextCtl, t.name,
                                                CallArguments(t.name, t.arg), e)} :
                            /\ robot' = alone.robot
                            /\ nextCtl' = alone.nextCtl
                            /\ alive' = AliveAfter(from.alive, alone.ops)
                            /\ ops' = alone.ops
                            /\ response' = alone.response
        /\ (/\ Held
            /\ robot'.controller.id = robot.controller.id
            /\ robot'.controller.commands # robot.controller.commands
            => \E i \in 1..MaxTasks :
                  /\ tasks[i].name = "jump_robot"
                  /\ tasks[i].pc = "gated"
                  /\ tasks'[i].pc = "free"
                  /\ robot'.controller.commands =
                        Append(robot.controller.commands,
                               FrameFor(FreshWrapper, <<"jump", tasks[i].arg>>)))
      ]_vars

\* A long jump and then a high jump have put their frames, in that order, in
\* the queue of the controller; a move on that controller is in flight while
\* a disconnect sent at the same time waits for its turn.
C16_Witness ==
    /\ Held
    /\ robot.controller.commands =
          << fab_cmd(4, 11, 3, 2, 3, <<0, 0, 0, 0>>),
             fab_cmd(4, 11, 3, 2, 3, <<1, 0, 0, 0>>) >>
    /\ tasks[1].name = "move_robot"
    /\ tasks[1].pc = "moving"
    /\ tasks[1].ctl = robot.controller.id
    /\ tasks[2].name = "disconnect_robot"
    /\ tasks[2].pc = "created"

====
